---- MODULE Spec2Model ----
(***************************************************************************)
(* Model of src/app.py: the Streamlit script (session state, start button, *)
(* ThreadPoolExecutor bridge with future.result(timeout=900)) and the      *)
(* worker coroutine scrape_unicorn_names_async (one browser session, one   *)
(* pass over the rows, per-row try/except).                                *)
(*                                                                         *)
(* Text that the code manipulates character by character (the scraped      *)
(* label) is a sequence of one-character strings.  Text the code only      *)
(* formats (messages, log lines) is a TLA+ string.  The module is ASCII:   *)
(* the EN DASH of "Month must be 1-12" (line 43) and the arrow of the log  *)
(* line (line 57) are written "-" and "->".                                *)
(***************************************************************************)
EXTENDS Integers, Sequences, FiniteSets, TLC

VARIABLES
    input_df,         \* the uploaded table (line 103): a sequence of rows
    running,          \* st.session_state.running
    output_df,        \* st.session_state.output_df: <<>> is None, <<df>> a table
    status_msgs,      \* st.session_state.status_msgs
    btnDisabled,      \* the start button as last rendered (line 118)
    spc,              \* where the script thread is
    outcome,          \* result of the latest future.result call (lines 134-147)
    wpc,              \* where the worker running the coroutine is
    wexc,             \* message of the exception that escaped the worker
    i,                \* rows the loop of line 36 has finished
    results,          \* the coroutine's results list (line 25)
    status_messages,  \* the coroutine's status_messages list (line 26)
    launched,         \* browser sessions opened by this run (line 29)
    navigated,        \* page.goto calls of this run (line 33)
    closed,           \* browser.close calls of this run (line 65)
    undelayed,        \* the service was used and no asyncio.sleep followed yet
    abandoned         \* earlier runs still executing when a new one was submitted

vars == <<input_df, running, output_df, status_msgs, btnDisabled, spc, outcome,
          wpc, wexc, i, results, status_messages, launched, navigated, closed,
          undelayed, abandoned>>

session == <<running, output_df, status_msgs>>
worker == <<wpc, wexc, i, results, status_messages, launched, navigated, closed,
            undelayed>>

(***************************************************************************)
(* Bounds                                                                  *)
(***************************************************************************)
MaxRows == 2
MaxRawLen == 5

(***************************************************************************)
(* Text helpers: Python's str.strip() and str.replace(old, new)            *)
(***************************************************************************)
Whitespace == {" ", "\n", "\t"}

RECURSIVE LStrip(_)
LStrip(s) ==
    IF s = <<>> THEN s
    ELSE IF Head(s) \in Whitespace THEN LStrip(Tail(s)) ELSE s

RECURSIVE RStrip(_)
RStrip(s) ==
    IF s = <<>> THEN s
    ELSE IF s[Len(s)] \in Whitespace THEN RStrip(SubSeq(s, 1, Len(s) - 1)) ELSE s

StripLeftOnly(s) == LStrip(s)

Strip(s) == RStrip(LStrip(s))

\* left to right, non-overlapping, one pass (old is not empty)
RECURSIVE StrReplace(_, _, _)
StrReplace(s, old, new) ==
    IF Len(s) < Len(old) THEN s
    ELSE IF SubSeq(s, 1, Len(old)) = old
         THEN new \o StrReplace(SubSeq(s, Len(old) + 1, Len(s)), old, new)
         ELSE <<Head(s)>> \o StrReplace(Tail(s), old, new)

\* line 54: name.strip().replace("\n", " ").replace("  ", " ")
Clean(name) ==
    StrReplace(StrReplace(Strip(name), <<"\n">>, <<" ">>), <<" ", " ">>, <<" ">>)

(***************************************************************************)
(* Inputs                                                                  *)
(***************************************************************************)
MONTHS == <<"January", "February", "March", "April", "May", "June",
            "July", "August", "September", "October", "November", "December">>

Names == {"Ann"}

IntMonth(v) == [kind |-> "int", val |-> v]

\* A Month cell as pandas hands it over: an integer, a float (val in tenths),
\* a non-numeric string, or a missing value (NaN).
MonthValues ==
    {IntMonth(0), IntMonth(1), IntMonth(12), IntMonth(13),
     [kind |-> "float", val |-> 37],
     [kind |-> "str", val |-> 0],
     [kind |-> "nan", val |-> 0]}

\* " Sparkle\nDust  "
ExampleRaw == <<" ", "S", "p", "a", "r", "k", "l", "e", "\n", "D", "u", "s", "t", " ", " ">>
ExampleClean == <<"S", "p", "a", "r", "k", "l", "e", " ", "D", "u", "s", "t">>

\* What the external page does for a row: "ok" shows the label with text raw,
\* "action_error" makes fill/select_option/click raise, "wait_timeout" makes
\* wait_for raise after 10000 ms, "hang" never answers.
Rows ==
    {[Name |-> n, Month |-> m, svc |-> "ok", raw |-> ExampleRaw] :
        n \in Names, m \in MonthValues}
    \cup
    {[Name |-> n, Month |-> IntMonth(1), svc |-> s, raw |-> <<>>] :
        n \in Names, s \in {"action_error", "wait_timeout", "hang"}}

Tables == UNION {[1..n -> Rows] : n \in 0..MaxRows}

Alphabet == {"a", " ", "\n", "\t"}
RawStrings == UNION {[1..n -> Alphabet] : n \in 0..MaxRawLen} \cup {ExampleRaw}
CleanTables ==
    {<<[Name |-> n, Month |-> IntMonth(1), svc |-> "ok", raw |-> r]>> :
        n \in Names, r \in RawStrings}

None == <<>>
Some(x) == <<x>>

(***************************************************************************)
(* The row steps of scrape_unicorn_names_async                             *)
(***************************************************************************)
\* int(row['Month']): truncation toward zero for a float, ValueError for a
\* non-numeric string or NaN
PyInt(m) ==
    CASE m.kind = "int" -> [ok |-> TRUE, val |-> m.val, msg |-> ""]
      [] m.kind = "float" ->
            [ok |-> TRUE,
             val |-> IF m.val >= 0 THEN m.val \div 10 ELSE -((-m.val) \div 10),
             msg |-> ""]
      [] m.kind = "str" ->
            [ok |-> FALSE, val |-> 0,
             msg |-> "invalid literal for int() with base 10: 'abc'"]
      [] m.kind = "nan" ->
            [ok |-> FALSE, val |-> 0,
             msg |-> "cannot convert float NaN to integer"]

\* lines 41-44
MonthStep(row) ==
    LET c == PyInt(row.Month)
        month_idx == c.val - 1
    IN  IF ~c.ok THEN [ok |-> FALSE, msg |-> c.msg, month_name |-> ""]
        ELSE IF ~(0 <= month_idx /\ month_idx <= 11)
             THEN [ok |-> FALSE, msg |-> "Month must be 1-12", month_name |-> ""]
             ELSE [ok |-> TRUE, msg |-> "", month_name |-> MONTHS[month_idx + 1]]

\* lines 46-53 against the page
ServiceStep(row) ==
    CASE row.svc = "ok" -> [ok |-> TRUE, msg |-> "", name |-> row.raw]
      [] row.svc = "action_error" ->
            [ok |-> FALSE, msg |-> "Locator action failed", name |-> <<>>]
      [] row.svc = "wait_timeout" ->
            [ok |-> FALSE, msg |-> "Timeout 10000ms exceeded.", name |-> <<>>]

\* line 55
ValueCell(cleaned) == [err |-> FALSE, str |-> "", text |-> cleaned]
\* line 62
ErrorCell(msg) == [err |-> TRUE, str |-> "Error: " \o msg, text |-> <<>>]

\* line 39
ProcessingLine(n, total, name) ==
    [str |-> "Processing row " \o ToString(n) \o "/" \o ToString(total)
             \o ": " \o name \o "...",
     text |-> <<>>]
\* line 57
ResultLine(cleaned) == [str |-> "-> ", text |-> cleaned]
\* line 63
FailLine(n, msg) ==
    [str |-> "Row " \o ToString(n) \o " failed: " \o msg, text |-> <<>>]

\* line 67: the table with its new column
WithColumn(df, col) ==
    [k \in 1..Len(df) |->
        [Name |-> df[k].Name, Month |-> df[k].Month, UnicornName |-> col[k]]]

Finished == {"returned", "raised"}
Hung == wpc = "service" /\ input_df[i + 1].svc = "hang"

(***************************************************************************)
(* Initial state: a file is uploaded and the script has run once           *)
(***************************************************************************)
InitRest ==
    /\ running = FALSE
    /\ output_df = None
    /\ status_msgs = <<>>
    /\ btnDisabled = FALSE
    /\ spc = "idle"
    /\ outcome = "None"
    /\ wpc = "none"
    /\ wexc = ""
    /\ i = 0
    /\ results = <<>>
    /\ status_messages = <<>>
    /\ launched = 0
    /\ navigated = 0
    /\ closed = 0
    /\ undelayed = FALSE
    /\ abandoned = 0

Init == input_df \in Tables /\ InitRest

InitClean == input_df \in CleanTables /\ InitRest

(***************************************************************************)
(* The worker: run_scraping_in_thread -> scrape_unicorn_names_async        *)
(***************************************************************************)
\* lines 28-31
WLaunch ==
    /\ wpc = "launch"
    /\ launched' = launched + 1
    /\ wpc' = "goto"
    /\ UNCHANGED <<input_df, session, btnDisabled, spc, outcome, wexc, i, results,
                   status_messages, navigated, closed, undelayed, abandoned>>

\* lines 28-31 raising: nothing catches it inside the worker
WLaunchFail ==
    /\ wpc = "launch"
    /\ wpc' = "raised"
    /\ wexc' = "BrowserType.launch failed"
    /\ UNCHANGED <<input_df, session, btnDisabled, spc, outcome, i, results,
                   status_messages, launched, navigated, closed, undelayed,
                   abandoned>>

\* line 33
WGoto ==
    /\ wpc = "goto"
    /\ navigated' = navigated + 1
    /\ wpc' = "row"
    /\ UNCHANGED <<input_df, session, btnDisabled, spc, outcome, wexc, i, results,
                   status_messages, launched, closed, undelayed, abandoned>>

\* line 33 raising
WGotoFail ==
    /\ wpc = "goto"
    /\ wpc' = "raised"
    /\ wexc' = "Page.goto failed"
    /\ UNCHANGED <<input_df, session, btnDisabled, spc, outcome, i, results,
                   status_messages, launched, navigated, closed, undelayed,
                   abandoned>>

RowExceptReraise(log, msg) ==
    /\ results' = results
    /\ status_messages' = log
    /\ i' = i
    /\ wpc' = "raised"
    /\ wexc' = msg

RowExceptNoCell(log, msg) ==
    /\ results' = results
    /\ status_messages' = Append(log, FailLine(i + 1, msg))
    /\ i' = i + 1
    /\ wpc' = "row"
    /\ wexc' = wexc

\* lines 61-63, then on to the next row
RowExcept(log, msg) ==
    /\ results' = Append(results, ErrorCell(msg))
    /\ status_messages' = Append(log, FailLine(i + 1, msg))
    /\ i' = i + 1
    /\ wpc' = "row"
    /\ wexc' = wexc

\* lines 36-44: next row, its "Processing" line, the month check
WRowBegin ==
    /\ wpc = "row"
    /\ i < Len(input_df)
    /\ LET row == input_df[i + 1]
           log == Append(status_messages,
                         ProcessingLine(i + 1, Len(input_df), row.Name))
           m == MonthStep(row)
       IN  IF m.ok
           THEN /\ status_messages' = log
                /\ wpc' = "service"
                /\ UNCHANGED <<results, i, wexc>>
           ELSE RowExcept(log, m.msg)
    /\ UNCHANGED <<input_df, session, btnDisabled, spc, outcome, launched,
                   navigated, closed, undelayed, abandoned>>

\* lines 46-57: the form is filled and submitted, the label awaited and read
WService ==
    /\ wpc = "service"
    /\ input_df[i + 1].svc # "hang"
    /\ LET s == ServiceStep(input_df[i + 1])
       IN  IF s.ok
           THEN LET cleaned == Clean(s.name)
                IN  /\ results' = Append(results, ValueCell(cleaned))
                    /\ status_messages' = Append(status_messages, ResultLine(cleaned))
                    /\ wpc' = "sleep"
                    /\ UNCHANGED <<i, wexc>>
           ELSE RowExcept(status_messages, s.msg)
    /\ undelayed' = TRUE
    /\ UNCHANGED <<input_df, session, btnDisabled, spc, outcome, launched,
                   navigated, closed, abandoned>>

\* line 59
WSleep ==
    /\ wpc = "sleep"
    /\ undelayed' = FALSE
    /\ i' = i + 1
    /\ wpc' = "row"
    /\ UNCHANGED <<input_df, session, btnDisabled, spc, outcome, wexc, results,
                   status_messages, launched, navigated, closed, abandoned>>

WCloseSkip ==
    /\ wpc = "row"
    /\ i = Len(input_df)
    /\ wpc' = "return"
    /\ UNCHANGED <<input_df, session, btnDisabled, spc, outcome, wexc, i, results,
                   status_messages, launched, navigated, closed, undelayed,
                   abandoned>>

\* line 65, after the loop
WClose ==
    /\ wpc = "row"
    /\ i = Len(input_df)
    /\ closed' = closed + 1
    /\ wpc' = "return"
    /\ UNCHANGED <<input_df, session, btnDisabled, spc, outcome, wexc, i, results,
                   status_messages, launched, navigated, undelayed, abandoned>>

\* lines 67-68 and 80-83: pandas refuses a column of the wrong length
WReturn ==
    /\ wpc = "return"
    /\ IF Len(results) = Len(input_df)
       THEN wpc' = "returned" /\ wexc' = wexc
       ELSE /\ wpc' = "raised"
            /\ wexc' = "Length of values does not match length of index"
    /\ UNCHANGED <<input_df, session, btnDisabled, spc, outcome, i, results,
                   status_messages, launched, navigated, closed, undelayed,
                   abandoned>>

WorkerStep ==
    \/ WLaunch \/ WLaunchFail \/ WGoto \/ WGotoFail
    \/ WRowBegin \/ WService \/ WSleep \/ WClose \/ WReturn

(***************************************************************************)
(* The script                                                              *)
(***************************************************************************)
StartClickKeepOutput ==
    /\ spc = "idle"
    /\ ~btnDisabled
    /\ running' = TRUE
    /\ spc' = "rerun"
    /\ UNCHANGED <<input_df, output_df, status_msgs, btnDisabled, outcome, worker,
                   abandoned>>

\* lines 121-125: the button returned True
StartClick ==
    /\ spc = "idle"
    /\ ~btnDisabled
    /\ running' = TRUE
    /\ output_df' = None
    /\ status_msgs' = <<>>
    /\ spc' = "rerun"
    /\ UNCHANGED <<input_df, btnDisabled, outcome, worker, abandoned>>

\* lines 101-131 and 150 with the button not pressed: the button is drawn
\* from the flag, and a set flag submits the coroutine to a fresh executor
ScriptBody ==
    /\ btnDisabled' = running
    /\ IF running
       THEN /\ abandoned' = IF wpc \in Finished \cup {"none"}
                            THEN abandoned ELSE abandoned + 1
            /\ wpc' = "launch"
            /\ wexc' = ""
            /\ i' = 0
            /\ results' = <<>>
            /\ status_messages' = <<>>
            /\ launched' = 0
            /\ navigated' = 0
            /\ closed' = 0
            /\ undelayed' = FALSE
            /\ outcome' = "Pending"
            /\ spc' = "blocked"
       ELSE /\ spc' = "idle"
            /\ UNCHANGED <<outcome, worker, abandoned>>
    /\ UNCHANGED <<input_df, session>>

\* the run that st.rerun() asked for (lines 125, 139)
ScriptRerun ==
    /\ spc = "rerun"
    /\ ScriptBody

\* a run caused by the user touching another widget (the uploader, line 99)
WidgetRerun ==
    /\ spc = "idle"
    /\ ScriptBody

\* lines 134-139
FutureResult ==
    /\ spc = "blocked"
    /\ wpc = "returned"
    /\ output_df' = Some(WithColumn(input_df, results))
    /\ status_msgs' = status_messages
    /\ running' = FALSE
    /\ outcome' = "Completed"
    /\ spc' = "rerun"
    /\ UNCHANGED <<input_df, btnDisabled, worker, abandoned>>

TimeoutNoJoin ==
    /\ spc = "blocked"
    /\ wpc \notin Finished
    /\ running' = FALSE
    /\ outcome' = "TimedOut"
    /\ spc' = "idle"
    /\ UNCHANGED <<input_df, output_df, status_msgs, btnDisabled, worker, abandoned>>

\* lines 140-142, then the executor's with-block ends: shutdown(wait=True)
FutureTimeout ==
    /\ spc = "blocked"
    /\ wpc \notin Finished
    /\ running' = FALSE
    /\ outcome' = "TimedOut"
    /\ spc' = "shutdown"
    /\ UNCHANGED <<input_df, output_df, status_msgs, btnDisabled, worker, abandoned>>

\* lines 144-146; the worker is over, so the with-block ends at once
FutureException ==
    /\ spc = "blocked"
    /\ wpc = "raised"
    /\ running' = FALSE
    /\ outcome' = "Failed"
    /\ spc' = "idle"
    /\ UNCHANGED <<input_df, output_df, status_msgs, btnDisabled, worker, abandoned>>

\* the with-block of line 130 is left once the worker thread has ended
ShutdownDone ==
    /\ spc = "shutdown"
    /\ wpc \in Finished
    /\ spc' = "idle"
    /\ UNCHANGED <<input_df, session, btnDisabled, outcome, worker, abandoned>>

BridgeStep ==
    \/ ScriptRerun \/ FutureResult \/ FutureTimeout \/ FutureException
    \/ ShutdownDone

Next ==
    \/ StartClick
    \/ WidgetRerun
    \/ ScriptRerun
    \/ FutureResult
    \/ FutureTimeout
    \/ FutureException
    \/ ShutdownDone
    \/ WLaunch
    \/ WLaunchFail
    \/ WGoto
    \/ WGotoFail
    \/ WRowBegin
    \/ WService
    \/ WSleep
    \/ WClose
    \/ WReturn

Spec == Init /\ [][Next]_vars

SpecClean == InitClean /\ [][Next]_vars

\* The worker thread and the script thread are both scheduled; the user need
\* not do anything.
FairSpec == Init /\ [][Next]_vars /\ WF_vars(WorkerStep) /\ WF_vars(BridgeStep)

(***************************************************************************)
(* Properties                                                              *)
(***************************************************************************)
\* the cell a row must end up with, whatever the other rows are
ExpectedCell(row) ==
    LET m == MonthStep(row)
    IN  IF ~m.ok THEN ErrorCell(m.msg)
        ELSE LET s == ServiceStep(row)
             IN  IF s.ok THEN ValueCell(Clean(s.name)) ELSE ErrorCell(s.msg)

\* the message of the exception a row raises ("" when it raises none)
RowFailure(row) ==
    LET m == MonthStep(row)
    IN  IF ~m.ok THEN m.msg
        ELSE IF row.svc = "hang" THEN "" ELSE ServiceStep(row).msg

\* Month is outside 1..12 or not integer-like
MonthInvalid(m) == m.kind # "int" \/ m.val < 1 \/ m.val > 12

\* C1: when the worker never completes, the blocked caller eventually gets
\* control back with the TimedOut outcome (it does not stay blocked on the
\* unfinished worker) and the running flag is false.
C1_TimeoutReturnsControl ==
    (spc = "blocked" /\ Hung)
        ~> (spc = "idle" /\ outcome = "TimedOut" /\ running = FALSE)

\* C2: a row whose Month is outside 1..12 or not integer-like gets exactly
\* the cell "Error: Month must be 1-12".
C2_BadMonthCell ==
    \A k \in 1..Len(results) :
        MonthInvalid(input_df[k].Month)
            => results[k] = ErrorCell("Month must be 1-12")

\* C3: every processed row contributes exactly one cell, cell k is the cell
\* of row k, a completed batch has one cell per row, and the results list is
\* only ever appended to within a batch.
C3_OneCellPerRow ==
    /\ wpc \in {"row", "service", "return", "returned"} => Len(results) = i
    /\ wpc = "sleep" => Len(results) = i + 1
    /\ \A k \in 1..Len(results) : results[k] = ExpectedCell(input_df[k])
    /\ wpc = "returned" => Len(results) = Len(input_df)
    /\ output_df # None =>
          /\ Len(output_df[1]) = Len(input_df)
          /\ \A k \in 1..Len(input_df) :
                /\ output_df[1][k].Name = input_df[k].Name
                /\ output_df[1][k].Month = input_df[k].Month
                /\ output_df[1][k].UnicornName = ExpectedCell(input_df[k])

C3_AppendOnly ==
    \/ results' = results
    \/ /\ Len(results') = Len(results) + 1
       /\ SubSeq(results', 1, Len(results)) = results
    \/ wpc' = "launch" /\ results' = <<>>

C3_ResultsPerRow == []C3_OneCellPerRow /\ [][C3_AppendOnly]_vars

C3_Witness ==
    /\ wpc = "returned"
    /\ Len(input_df) = 2
    /\ results[1].err
    /\ ~results[2].err

\* C4: a row that raises gets the cell "Error: <message>" and the log line
\* "Row <n> failed: <message>", the exception never escapes the worker (only
\* a failure before the loop makes the batch Failed), and the rows after it
\* are processed.
C4_RowFailureIsolated ==
    /\ \A k \in 1..Len(results) :
          LET msg == RowFailure(input_df[k])
          IN  msg # "" =>
                /\ results[k].err
                /\ results[k].str = "Error: " \o msg
                /\ \E j \in 1..Len(status_messages) :
                      status_messages[j].str
                          = "Row " \o ToString(k) \o " failed: " \o msg
    /\ wpc = "raised" =>
          /\ i = 0
          /\ results = <<>>
          /\ wexc \in {"BrowserType.launch failed", "Page.goto failed"}
    /\ outcome = "Failed" => wpc = "raised" /\ i = 0
    /\ wpc \in {"return", "returned"} => Len(results) = Len(input_df)

C4_Witness ==
    /\ wpc = "returned"
    /\ Len(input_df) = 2
    /\ input_df[1].svc = "wait_timeout"
    /\ results[1].str = "Error: Timeout 10000ms exceeded."
    /\ ~results[2].err

C6_RetryAvailable ==
    (spc = "idle" /\ outcome \in {"TimedOut", "Failed"})
        => (running = FALSE /\ ENABLED StartClick)

\* C7: after a TimedOut or Failed outcome the session's output table is None
\* and its log empty; a table is in the session only after a Completed
\* outcome, and it is the complete table of that batch.
C7_NoPartialResults ==
    /\ outcome \in {"TimedOut", "Failed"} =>
          output_df = None /\ status_msgs = <<>>
    /\ output_df # None =>
          /\ outcome = "Completed"
          /\ wpc = "returned"
          /\ output_df = Some(WithColumn(input_df, results))
          /\ Len(output_df[1]) = Len(input_df)
          /\ status_msgs = status_messages

C7_Witness ==
    /\ outcome = "TimedOut"
    /\ Len(results) >= 1
    /\ spc = "idle"
    /\ output_df = None

\* the text between the first and the last non-whitespace character, with
\* every newline turned into a space
Trimmed(raw) ==
    LET keep == {k \in 1..Len(raw) : raw[k] \notin Whitespace}
    IN  IF keep = {} THEN <<>>
        ELSE LET lo == CHOOSE k \in keep : \A j \in keep : k <= j
                 hi == CHOOSE k \in keep : \A j \in keep : j <= k
             IN  [k \in 1..(hi - lo + 1) |->
                    IF raw[lo + k - 1] = "\n" THEN " " ELSE raw[lo + k - 1]]

\* a text as its runs <<character, length>>
RECURSIVE Runs(_)
Runs(s) ==
    IF s = <<>> THEN <<>>
    ELSE LET r == Runs(Tail(s))
         IN  IF r # <<>> /\ r[1][1] = Head(s)
             THEN <<<<Head(s), r[1][2] + 1>>>> \o Tail(r)
             ELSE <<<<Head(s), 1>>>> \o r

\* one left-to-right pass over pairs of spaces leaves ceil(n/2) of a run of n
HalvedSpaces(r) ==
    [k \in 1..Len(r) |->
        IF r[k][1] = " " THEN <<" ", (r[k][2] + 1) \div 2>> ELSE r[k]]

\* C8: a stored value is the raw text stripped, newlines turned into spaces,
\* pairs of spaces collapsed in one pass; it never starts or ends with
\* whitespace, never holds a newline, and " Sparkle\nDust  " is stored as
\* "Sparkle Dust".
C8_Normalization ==
    \A k \in 1..Len(results) :
        (~results[k].err) =>
            LET raw == input_df[k].raw
                c == results[k].text
            IN  /\ \A j \in 1..Len(c) : c[j] # "\n"
                /\ c # <<>> => c[1] \notin Whitespace /\ c[Len(c)] \notin Whitespace
                /\ Runs(c) = HalvedSpaces(Runs(Trimmed(raw)))
                /\ raw = ExampleRaw => c = ExampleClean
                /\ raw = <<"a", " ", " ", " ", "b">> => c = <<"a", " ", " ", "b">>

C8_Witness ==
    /\ input_df[1].raw = ExampleRaw
    /\ results = <<ValueCell(ExampleClean)>>

\* C9: one browser session per batch, one navigation and it precedes every
\* row, no row is processed after the session is closed, and the session is
\* closed once the last row is done, failed rows included.
C9_BrowserLifecycle ==
    /\ launched <= 1 /\ navigated <= 1 /\ closed <= 1
    /\ wpc \in {"row", "service", "sleep"} =>
          launched = 1 /\ navigated = 1 /\ closed = 0
    /\ (i > 0 \/ results # <<>>) => launched = 1 /\ navigated = 1
    /\ closed = 1 =>
          /\ wpc \in {"return", "returned"}
          /\ i = Len(input_df)
          /\ Len(results) = Len(input_df)
    /\ wpc \in {"return", "returned"} => closed = 1

C9_Witness ==
    /\ wpc = "returned"
    /\ closed = 1
    /\ Len(results) = 2
    /\ results[1].err
    /\ ~results[2].err

\* C10: between any two successive interactions with the service there is a
\* delay step, whether the earlier row succeeded or failed.
C10_DelayBetweenInteractions == wpc = "service" => ~undelayed

====
